---- MODULE Spec2Model ----
(***************************************************************************)
(* Sweetify backend: the store-connection supervisor and the /api gate     *)
(* (src/unnamed/part_000), the inventory ledger of the sweets router       *)
(* (src/src/app.js, lines 50-275) and the cart router                      *)
(* (src/unnamed/part_002, src/src/routes/cartRoutes.js).                   *)
(*                                                                         *)
(* Four specifications share the variables:                                *)
(*   SpecConn    connectWithRetry, gracefulShutdown, the /api gate         *)
(*   SpecLedger  concurrent purchase / restock requests on the store       *)
(*   SpecCart    add / replace / remove / sync on the carts collection     *)
(*   SpecNorm    normalizePayload as a function of the request body        *)
(* The middlewares protect and isAdmin are not part of the sources; every  *)
(* request modelled here is one they let through.                          *)
(***************************************************************************)
EXTENDS Integers, Sequences, FiniteSets, TLC

\* ------------------------------------------------------------ bounds
NApi == 2          \* /api requests in flight in SpecConn
MaxAttempt == 3    \* connection attempts followed before the model stops counting
MaxSignals == 2    \* SIGINT / SIGTERM deliveries
NReq == 2          \* concurrent ledger requests
MaxStock == 2      \* initial stock of the item
MaxReqQty == 2     \* largest quantity a ledger request carries
MaxBatch == 2      \* entries in one items array
MaxQty == 4        \* largest cart line quantity followed
MaxBackoffAttempt == 8   \* attempt numbers whose backoff is computed

\* ------------------------------------------------- JavaScript values
\* Number(x) of a non-numeric value. Every arithmetic use tests for it first.
NaN == -1000

\* A raw JSON value in a quantity position: absent, a number, or a
\* non-numeric string.
AbsentQ == [k |-> "absent", n |-> 0]
StrQ == [k |-> "str", n |-> 0]
NumQ(n) == [k |-> "num", n |-> n]

\* JavaScript truthiness of a quantity value: undefined and 0 are falsy, a
\* non-empty string is truthy.
TruthyQ(q) == \/ q.k = "str"
              \/ q.k = "num" /\ q.n # 0

\* Number(q)
ToNumber(q) == IF q.k = "num" THEN q.n ELSE NaN

\* A raw JSON value in an id position: absent, a string, or an object
\* carrying its own _id.
AbsentId == [k |-> "absent", id |-> ""]
StrId(s) == [k |-> "str", id |-> s]
ObjId(s) == [k |-> "obj", id |-> s]

TruthyId(v) == v.k # "absent"

\* String(v)
ToStr(v) == CASE v.k = "str" -> v.id
              [] v.k = "obj" -> "[object Object]"
              [] OTHER -> "undefined"

\* ------------------------------------------------------------ the store
ItemIds == {"A", "B"}          \* ids of the ledger's requests; "B" is not stored
ValidIds == {"A", "B", "C"}    \* strings that are well-formed ObjectIds
Catalog == {"A", "B"}          \* the sweets the cart routes can find

VARIABLES
  \* src/unnamed/part_000
  dbConnected,   \* the health flag
  mongoState,    \* mongoose's connection: disconnected, connecting, connected
  loopPc,        \* connectWithRetry: off, attempt, sleep, done
  attempt,       \* its attempt counter
  shut,          \* one pc per gracefulShutdown invocation
  exited,        \* process.exit was called
  apiReqs,       \* requests under /api, seen from the gate
  healthResp,    \* the last response of GET /
  \* src/src/app.js (sweets router)
  sweets,        \* the Sweet collection: id -> [present, stock]
  initStock,     \* the stock of "A" when the requests began
  reqs,          \* purchase and restock requests in flight (raw: the body's
                 \* quantity, kept until the storage call has been made)
  \* src/unnamed/part_002, src/src/routes/cartRoutes.js
  carts,         \* the Cart collection: a sequence of [user, items]
  last,          \* the last cart request and its response
  twice,         \* the last cart requests, when they repeat one payload
  \* normalizePayload on its own
  body,          \* a request body
  normOut,       \* normalizePayload(body)
  normPc,
  \* the cart routes, one request per process, await by await
  cartReqs,      \* cart requests in flight
  \* the backoff of connectWithRetry on its own
  backoff,       \* attempt, Math.random() and the wait computed from them
  \* src/src/app.js (sweets router), whole handlers one after the other
  catalog,       \* the Sweet collection: id -> [present, name, stock, createdBy]
  catLast        \* the last request of the sweets router and its response

connVars == <<dbConnected, mongoState, loopPc, attempt, shut, exited>>
apiVars == <<apiReqs>>
ledgerVars == <<sweets, initStock, reqs>>
cartVars == <<carts, last, twice>>
normVars == <<body, normOut, normPc>>
raceVars == <<cartReqs>>
backoffVars == <<backoff>>
catVars == <<catalog, catLast>>
healthVars == <<healthResp>>
vars == <<connVars, apiVars, ledgerVars, cartVars, normVars, raceVars, backoffVars, catVars, healthVars>>

\* ------------------------------------------------- idle values of each part
ApiProcs == 1..NApi
Procs == 1..NReq

IdleApi == [pc |-> "idle", status |-> 0, gateConn |-> "", handler |-> FALSE,
            touched |-> FALSE]
IdleReq == [kind |-> "none", pc |-> "idle", id |-> "A", raw |-> AbsentQ,
            qty |-> 0, status |-> 0, err |-> "", avail |-> 0]
NoLast == [op |-> "none", user |-> "", status |-> 0, id |-> "", bad |-> FALSE,
           floor |-> FALSE]
NoTwice == [phase |-> "none", user |-> "", x |-> ""]
EmptyEntry == [itemId |-> AbsentId, item |-> AbsentId, _id |-> AbsentId,
               quantity |-> AbsentQ]
EmptyBody == [null |-> FALSE, hasItems |-> FALSE, items |-> <<>>,
              top |-> EmptyEntry]

ConnIdle == /\ dbConnected = TRUE
            /\ mongoState = "connected"
            /\ loopPc = "done"
            /\ attempt = 1
            /\ shut = <<>>
            /\ exited = FALSE
ApiIdle == apiReqs = [p \in ApiProcs |-> IdleApi]
LedgerIdle == /\ sweets = [i \in ItemIds |-> [present |-> i = "A", stock |-> 0]]
              /\ initStock = 0
              /\ reqs = [p \in Procs |-> IdleReq]
CartIdle == /\ carts = <<>>
            /\ last = NoLast
            /\ twice = NoTwice
IdleCartReq == [pc |-> "idle", op |-> "none", user |-> "", found |-> 0,
                items |-> <<>>, read |-> <<>>, status |-> 0]
RaceIdle == cartReqs = [p \in Procs |-> IdleCartReq]
IdleBackoff == [pc |-> "idle", attempt |-> 0, random |-> 0, delay |-> 0,
                jitter |-> 0, wait |-> 0]
BackoffIdle == backoff = IdleBackoff
NoSweet == [present |-> FALSE, name |-> "", stock |-> 0, createdBy |-> ""]
NoCatLast == [op |-> "none", id |-> "", status |-> 0, header |-> 0,
              admin |-> FALSE, shown |-> {}]
CatIdle == /\ catalog = [i \in ItemIds |-> NoSweet]
           /\ catLast = NoCatLast
NoHealth == [status |-> 0, dbConnected |-> FALSE]
HealthIdle == healthResp = NoHealth
NormIdle == /\ body = EmptyBody
            /\ normOut = <<>>
            /\ normPc = "idle"


\* ===================================================== SpecConn
\* The connection state of the data model, read off the program's state.
ConnectionState ==
  IF shut # <<>> THEN "ShuttingDown"
  ELSE IF mongoState = "connected" THEN "Connected"
  ELSE IF loopPc \in {"attempt", "sleep"} THEN "Connecting"
  ELSE "Disconnected"

\* Module load: with MONGO_URI set connectWithRetry runs to its first await
\* (attempt 1 of mongoose.connect is pending); without it no loop starts.
InitConn ==
  /\ dbConnected = FALSE
  /\ \E uriSet \in BOOLEAN :
       IF uriSet
       THEN loopPc = "attempt" /\ attempt = 1 /\ mongoState = "connecting"
       ELSE loopPc = "off" /\ attempt = 0 /\ mongoState = "disconnected"
  /\ shut = <<>>
  /\ exited = FALSE
  /\ ApiIdle /\ LedgerIdle /\ CartIdle /\ NormIdle /\ RaceIdle /\ BackoffIdle /\ CatIdle /\ HealthIdle

\* break: where the loop stands after a resolved connect. Without the break
\* the next iteration would connect again.
LoopPcAfterSuccessNoBreak == "sleep"
LoopPcAfterSuccess == "done"

\* await mongoose.connect(uri) resolves: the flag is set, the loop breaks.
AttemptSucceed ==
  /\ ~exited
  /\ loopPc = "attempt"
  /\ mongoState' = "connected"
  /\ dbConnected' = TRUE
  /\ loopPc' = LoopPcAfterSuccess
  /\ UNCHANGED <<attempt, shut, exited, apiVars, ledgerVars, cartVars, normVars, raceVars, backoffVars, catVars, healthVars>>

\* await mongoose.connect(uri) rejects: the flag is cleared, the loop sleeps.
AttemptFail ==
  /\ ~exited
  /\ loopPc = "attempt"
  /\ mongoState' = "disconnected"
  /\ dbConnected' = FALSE
  /\ loopPc' = "sleep"
  /\ UNCHANGED <<attempt, shut, exited, apiVars, ledgerVars, cartVars, normVars, raceVars, backoffVars, catVars, healthVars>>

\* while (true): the loop condition after n attempts; maxAttempts is declared
\* and never read.
LoopContinuesBelowTwo(n) == n < 2
LoopContinues(n) == TRUE

\* The backoff timer fires: the next iteration calls mongoose.connect again.
TimerFires ==
  /\ ~exited
  /\ loopPc = "sleep"
  /\ LoopContinues(attempt)
  /\ attempt < MaxAttempt
  /\ attempt' = attempt + 1
  /\ loopPc' = "attempt"
  /\ mongoState' = "connecting"
  /\ UNCHANGED <<dbConnected, shut, exited, apiVars, ledgerVars, cartVars, normVars, raceVars, backoffVars, catVars, healthVars>>

\* SIGINT or SIGTERM: gracefulShutdown runs to its await of
\* mongoose.disconnect(). Nothing here touches dbConnected or the loop.
Signal ==
  /\ ~exited
  /\ Len(shut) < MaxSignals
  /\ shut' = Append(shut, "disconnecting")
  /\ mongoState' = IF mongoState = "connected" THEN "disconnecting" ELSE mongoState
  /\ UNCHANGED <<dbConnected, loopPc, attempt, exited, apiVars, ledgerVars,
                 cartVars, normVars, raceVars, backoffVars, catVars, healthVars>>

\* mongoose.disconnect() settles (resolved or caught); server.close is called.
DisconnectDone(i) ==
  /\ ~exited
  /\ i \in 1..Len(shut)
  /\ shut[i] = "disconnecting"
  /\ shut' = [shut EXCEPT ![i] = "closing"]
  /\ mongoState' = IF mongoState \in {"connected", "disconnecting"}
                   THEN "disconnected" ELSE mongoState
  /\ UNCHANGED <<dbConnected, loopPc, attempt, exited, apiVars, ledgerVars,
                 cartVars, normVars, raceVars, backoffVars, catVars, healthVars>>

\* The close callback runs once the in-flight requests have drained:
\* process.exit(0).
ServerClosed(i) ==
  /\ ~exited
  /\ i \in 1..Len(shut)
  /\ shut[i] = "closing"
  /\ \A p \in ApiProcs : apiReqs[p].pc # "handler"
  /\ shut' = [shut EXCEPT ![i] = "closed"]
  /\ exited' = TRUE
  /\ UNCHANGED <<dbConnected, mongoState, loopPc, attempt, apiVars, ledgerVars,
                 cartVars, normVars, raceVars, backoffVars, catVars, healthVars>>

\* app.get("/"): answered whatever the store's state, with the flag.
Health ==
  /\ ~exited
  /\ healthResp' = [status |-> 200, dbConnected |-> dbConnected]
  /\ UNCHANGED <<connVars, apiVars, ledgerVars, cartVars, normVars, raceVars,
                 backoffVars, catVars>>

\* app.use("/api", ...): the gate reads the flag and nothing else.
GateAlwaysOpen == TRUE
GateOpen == dbConnected

\* A request under /api arrives: 503 at once, or next() into its router.
ApiArrive(p) ==
  /\ ~exited
  /\ apiReqs[p].pc = "idle"
  /\ apiReqs' = [apiReqs EXCEPT ![p] =
       IF ~GateOpen
       THEN [pc |-> "done", status |-> 503, gateConn |-> ConnectionState,
             handler |-> FALSE, touched |-> FALSE]
       ELSE [pc |-> "handler", status |-> 0, gateConn |-> ConnectionState,
             handler |-> TRUE, touched |-> FALSE]]
  /\ UNCHANGED <<connVars, ledgerVars, cartVars, normVars, raceVars, backoffVars, catVars, healthVars>>

\* The routed handler issues its storage operation: it is served by a
\* connected store, and fails (500) on one that is not.
ApiHandle(p) ==
  /\ ~exited
  /\ apiReqs[p].pc = "handler"
  /\ apiReqs' = [apiReqs EXCEPT ![p] =
       IF mongoState = "connected"
       THEN [@ EXCEPT !.pc = "done", !.status = 200, !.touched = TRUE]
       ELSE [@ EXCEPT !.pc = "done", !.status = 500, !.touched = TRUE]]
  /\ UNCHANGED <<connVars, ledgerVars, cartVars, normVars, raceVars, backoffVars, catVars, healthVars>>

NextConn ==
  \/ AttemptSucceed
  \/ AttemptFail
  \/ TimerFires
  \/ Signal
  \/ \E i \in 1..MaxSignals : DisconnectDone(i)
  \/ \E i \in 1..MaxSignals : ServerClosed(i)
  \/ \E p \in ApiProcs : ApiArrive(p)
  \/ \E p \in ApiProcs : ApiHandle(p)
  \/ Health

SpecConn == InitConn /\ [][NextConn]_vars

\* The timer of a sleeping loop fires (setTimeout) and a pending
\* mongoose.connect settles (serverSelectionTimeoutMS), while the process
\* lives.
FairSpecConn ==
  /\ SpecConn
  /\ WF_vars(TimerFires)
  /\ WF_vars(AttemptSucceed \/ AttemptFail)

\* ===================================================== SpecBackoff
\* The wait between two attempts, as a function of the attempt number and
\* of Math.random().
baseDelay == 2000
DelayCap == 60000
JitterRange == 1000

\* Math.random() in units of 1/RandomUnits: a number in [0, 1).
RandomUnits == 2000
RandomSamples == {0, 1, 2, 999, 1000, 1998, 1999}

\* Math.min(baseDelay * Math.pow(2, attempt - 1), 60000)
BackoffDelayUncapped(n) == baseDelay * 2^(n - 1)
BackoffDelay(n) ==
  IF baseDelay * 2^(n - 1) < DelayCap THEN baseDelay * 2^(n - 1) ELSE DelayCap

\* Math.round(Math.random() * 1000): the nearest integer, a half rounding up.
BackoffJitter(r) == (2 * r * JitterRange + RandomUnits) \div (2 * RandomUnits)

InitBackoff ==
  /\ ConnIdle /\ ApiIdle /\ LedgerIdle /\ CartIdle /\ NormIdle /\ RaceIdle /\ CatIdle /\ HealthIdle
  /\ \E n \in 1..MaxBackoffAttempt, r \in RandomSamples :
       backoff = [IdleBackoff EXCEPT !.pc = "failed", !.attempt = n, !.random = r]

\* The catch block of the loop up to its setTimeout.
ComputeWait ==
  /\ backoff.pc = "failed"
  /\ backoff' = [backoff EXCEPT !.pc = "sleep",
                   !.delay = BackoffDelay(backoff.attempt),
                   !.jitter = BackoffJitter(backoff.random),
                   !.wait = BackoffDelay(backoff.attempt)
                              + BackoffJitter(backoff.random)]
  /\ UNCHANGED <<connVars, apiVars, ledgerVars, cartVars, normVars, raceVars, catVars, healthVars>>

NextBackoff == ComputeWait

SpecBackoff == InitBackoff /\ [][NextBackoff]_vars

\* ===================================================== SpecLedger
\* The quantities a purchase or restock body may carry.
LedgerRawQtys == {AbsentQ, StrQ} \cup {NumQ(n) : n \in -1..MaxReqQty}

\* const { quantity = 1 } = req.body; const qty = Number(quantity) || 1;
PurchaseQty(raw) ==
  LET n == IF raw.k = "absent" THEN 1 ELSE ToNumber(raw)
  IN IF n = NaN \/ n = 0 THEN 1 ELSE n

\* The filter of the conditional update: { stock: { $gte: qty } }.
CondMatchAlways(stock, qty) == TRUE
CondMatchStrict(stock, qty) == stock > qty
CondMatch(stock, qty) == stock >= qty

\* { $inc: { stock: -qty } }
DecStockByOne(stock, qty) == stock - 1
DecStock(stock, qty) == stock - qty

\* { $inc: { stock: qty } }
IncStock(stock, qty) == stock + qty

\* !quantity || isNaN(qty) || qty <= 0
RestockInvalidNoSign(raw, qty) == ~TruthyQ(raw) \/ qty = NaN
RestockInvalid(raw, qty) == ~TruthyQ(raw) \/ qty = NaN \/ qty <= 0

\* The store is connected and the item "A" is on sale with some stock; "B"
\* is an id no sweet has.
InitLedger ==
  /\ ConnIdle /\ ApiIdle /\ CartIdle /\ NormIdle /\ RaceIdle /\ BackoffIdle /\ CatIdle /\ HealthIdle
  /\ \E s \in 0..MaxStock :
       /\ sweets = [i \in ItemIds |-> [present |-> i = "A", stock |-> IF i = "A" THEN s ELSE 0]]
       /\ initStock = s
  /\ reqs = [p \in Procs |-> IdleReq]

\* POST /:id/purchase up to its first await: the gate, then the quantity.
PurchaseBegin(p, id, raw) ==
  /\ reqs[p].pc = "idle"
  /\ LET qty == PurchaseQty(raw)
         r == [IdleReq EXCEPT !.kind = "purchase", !.id = id, !.raw = raw]
     IN reqs' = [reqs EXCEPT ![p] =
          IF ~GateOpen
          THEN [r EXCEPT !.pc = "done", !.status = 503, !.err = "ServiceUnavailable"]
          ELSE IF qty <= 0
          THEN [r EXCEPT !.pc = "done", !.qty = qty, !.status = 400,
                         !.err = "QuantityMustBeAtLeast1"]
          ELSE [r EXCEPT !.pc = "write", !.qty = qty]]
  /\ UNCHANGED <<sweets, initStock, connVars, apiVars, cartVars, normVars, raceVars, backoffVars, catVars, healthVars>>

\* Sweet.findOneAndUpdate({_id, stock: {$gte: qty}}, {$inc: {stock: -qty}}):
\* one atomic operation of the store.
PurchaseWrite(p) ==
  /\ reqs[p].kind = "purchase"
  /\ reqs[p].pc = "write"
  /\ LET id == reqs[p].id
         qty == reqs[p].qty
     IN IF sweets[id].present /\ CondMatch(sweets[id].stock, qty)
        THEN /\ sweets' = [sweets EXCEPT ![id].stock = DecStock(@, qty)]
             /\ reqs' = [reqs EXCEPT ![p].pc = "done", ![p].status = 200,
                                     ![p].raw = AbsentQ]
        ELSE /\ sweets' = sweets
             /\ reqs' = [reqs EXCEPT ![p].pc = "diag", ![p].raw = AbsentQ]
  /\ UNCHANGED <<initStock, connVars, apiVars, cartVars, normVars, raceVars, backoffVars, catVars, healthVars>>

\* maybe.stock, as the message reports it.
AvailableOf(sweet) == sweet.stock

\* Sweet.findById(id).select("stock"), then 404 or 400 with the stock read.
PurchaseDiag(p) ==
  /\ reqs[p].kind = "purchase"
  /\ reqs[p].pc = "diag"
  /\ LET maybe == sweets[reqs[p].id]
     IN reqs' = [reqs EXCEPT ![p] =
          IF ~maybe.present
          THEN [@ EXCEPT !.pc = "done", !.status = 404, !.err = "NotFound"]
          ELSE [@ EXCEPT !.pc = "done", !.status = 400, !.err = "InsufficientStock",
                         !.avail = AvailableOf(maybe)]]
  /\ UNCHANGED <<sweets, initStock, connVars, apiVars, cartVars, normVars, raceVars, backoffVars, catVars, healthVars>>

\* POST /:id/restock up to its first await: the gate, then the quantity.
RestockBegin(p, id, raw) ==
  /\ reqs[p].pc = "idle"
  /\ LET qty == ToNumber(raw)
         r == [IdleReq EXCEPT !.kind = "restock", !.id = id, !.raw = raw]
     IN reqs' = [reqs EXCEPT ![p] =
          IF ~GateOpen
          THEN [r EXCEPT !.pc = "done", !.status = 503, !.err = "ServiceUnavailable"]
          ELSE IF RestockInvalid(raw, qty)
          THEN [r EXCEPT !.pc = "done", !.status = 400, !.err = "InvalidQuantity"]
          ELSE [r EXCEPT !.pc = "write", !.qty = qty]]
  /\ UNCHANGED <<sweets, initStock, connVars, apiVars, cartVars, normVars, raceVars, backoffVars, catVars, healthVars>>

\* Sweet.findByIdAndUpdate(id, {$inc: {stock: qty}}): one atomic operation,
\* no upsert.
RestockWrite(p) ==
  /\ reqs[p].kind = "restock"
  /\ reqs[p].pc = "write"
  /\ LET id == reqs[p].id
     IN IF sweets[id].present
        THEN /\ sweets' = [sweets EXCEPT ![id].stock = IncStock(@, reqs[p].qty)]
             /\ reqs' = [reqs EXCEPT ![p].pc = "done", ![p].status = 200,
                                     ![p].raw = AbsentQ]
        ELSE /\ sweets' = sweets
             /\ reqs' = [reqs EXCEPT ![p].pc = "done", ![p].status = 404,
                                     ![p].err = "NotFound", ![p].raw = AbsentQ]
  /\ UNCHANGED <<initStock, connVars, apiVars, cartVars, normVars, raceVars, backoffVars, catVars, healthVars>>

NextLedger ==
  \/ \E p \in Procs, id \in ItemIds, raw \in LedgerRawQtys : PurchaseBegin(p, id, raw)
  \/ \E p \in Procs : PurchaseWrite(p)
  \/ \E p \in Procs : PurchaseDiag(p)
  \/ \E p \in Procs, id \in ItemIds, raw \in LedgerRawQtys : RestockBegin(p, id, raw)
  \/ \E p \in Procs : RestockWrite(p)

SpecLedger == InitLedger /\ [][NextLedger]_vars

\* ===================================================== SpecNorm
\* const maybeId = it.itemId || it.item || it._id || (it.item && it.item._id)
\* The last operand is reached only with it.item falsy, and is then it.item.
NormalizeId(it) ==
  IF TruthyId(it.itemId) THEN it.itemId
  ELSE IF TruthyId(it.item) THEN it.item
  ELSE IF TruthyId(it._id) THEN it._id
  ELSE IF TruthyId(it.item)
       THEN (IF it.item.k = "obj" THEN StrId(it.item.id) ELSE AbsentId)
       ELSE it.item

\* Number(it.quantity || it.qty || 1), for a body that carries no qty field.
QtyOrOne(q) == IF TruthyQ(q) THEN ToNumber(q) ELSE 1

NormalizeEntry(it) == [itemId |-> NormalizeId(it), quantity |-> QtyOrOne(it.quantity)]

\* normalizePayload(body)
NormalizePayload(b) ==
  IF b.null THEN <<>>
  ELSE IF b.hasItems
  THEN [i \in 1..Len(b.items) |-> NormalizeEntry(b.items[i])]
  ELSE IF TruthyId(NormalizeId(b.top)) THEN <<NormalizeEntry(b.top)>>
  ELSE <<>>

\* Request bodies: null, a single { itemId | item | _id, quantity }, or
\* { items: [...] }.
TopBody(e) == [EmptyBody EXCEPT !.top = e]
ItemsBody(es) == [EmptyBody EXCEPT !.hasItems = TRUE, !.items = es]
NullBody == [EmptyBody EXCEPT !.null = TRUE]

RECURSIVE SeqsUpTo(_, _)
\* The sequences over S of length at most n.
SeqsUpTo(S, n) ==
  IF n = 0 THEN {<<>>}
  ELSE LET shorter == SeqsUpTo(S, n - 1)
       IN shorter \cup {Append(t, e) : t \in shorter, e \in S}

NormEntries ==
  [itemId : {AbsentId, StrId("A"), StrId("B")},
   item : {AbsentId, StrId("A"), ObjId("A")},
   _id : {AbsentId, StrId("C")},
   quantity : {AbsentQ, NumQ(0), NumQ(3), StrQ}]

\* The entries of the array payloads: normalizePayload maps the array entry
\* by entry, so the arrays draw on fewer shapes than the single-item payload.
NormArrayEntries ==
  {e \in NormEntries : /\ e._id = AbsentId
                       /\ e.itemId # StrId("B")
                       /\ e.quantity \in {AbsentQ, NumQ(3)}}

NormBodies ==
  {NullBody} \cup {TopBody(e) : e \in NormEntries}
             \cup {ItemsBody(es) : es \in SeqsUpTo(NormArrayEntries, MaxBatch)}

InitNorm ==
  /\ ConnIdle /\ ApiIdle /\ LedgerIdle /\ CartIdle /\ RaceIdle /\ BackoffIdle /\ CatIdle /\ HealthIdle
  /\ body \in NormBodies
  /\ normOut = <<>>
  /\ normPc = "in"

Normalize ==
  /\ normPc = "in"
  /\ normOut' = NormalizePayload(body)
  /\ normPc' = "out"
  /\ UNCHANGED <<body, connVars, apiVars, ledgerVars, cartVars, raceVars, backoffVars, catVars, healthVars>>

NextNorm == Normalize

SpecNorm == InitNorm /\ [][NextNorm]_vars

\* ===================================================== SpecCart
Users == {"u1"}

Line(id, q) == [item |-> id, quantity |-> q]

\* mongoose.Types.ObjectId.isValid(idStr)
IsValidObjectId(idStr) == idStr \in ValidIds

\* Sweet.findById(idStr) finds a document.
ItemExistsAlways(idStr) == TRUE
ItemExists(idStr) == idStr \in Catalog

\* Math.max(1, Number(it.quantity || 1)) of a normalized quantity: NaN and 0
\* are falsy and become 1.
FloorQty(n) ==
  LET m == IF n = NaN \/ n = 0 THEN 1 ELSE n
  IN IF m > 1 THEN m ELSE 1

RECURSIVE ValidateFrom(_, _, _)
\* The validation loop of POST / and PUT /: the first entry without an id,
\* with an ill-formed id or without a sweet ends the request.
ValidateFrom(raw, i, acc) ==
  IF i > Len(raw)
  THEN [ok |-> TRUE, status |-> 0, err |-> "", id |-> "", normalized |-> acc]
  ELSE LET it == raw[i]
           idStr == ToStr(it.itemId)
       IN IF ~TruthyId(it.itemId)
          THEN [ok |-> FALSE, status |-> 400, err |-> "MissingItemId", id |-> "",
                normalized |-> <<>>]
          ELSE IF ~IsValidObjectId(idStr)
          THEN [ok |-> FALSE, status |-> 400, err |-> "InvalidItemId", id |-> idStr,
                normalized |-> <<>>]
          ELSE IF ~ItemExists(idStr)
          THEN [ok |-> FALSE, status |-> 404, err |-> "ItemNotFound", id |-> idStr,
                normalized |-> <<>>]
          ELSE ValidateFrom(raw, i + 1,
                            Append(acc, Line(idStr, FloorQty(it.quantity))))

Validate(raw) == ValidateFrom(raw, 1, <<>>)

\* Cart.findOne({}), a lookup that leaves the user out of the filter: the
\* first cart stored.
FindAnyCart(u) == IF Len(carts) > 0 THEN 1 ELSE 0
\* Cart.findOne({ user }): the position of the user's first cart, 0 for none.
FindCart(u) ==
  IF \E k \in 1..Len(carts) : carts[k].user = u
  THEN CHOOSE k \in 1..Len(carts) :
         /\ carts[k].user = u
         /\ \A j \in 1..(k - 1) : carts[j].user # u
  ELSE 0

\* cart.items.findIndex((ci) => String(ci.item) === String(itemId)), from 1.
FindIndex(items, id) ==
  IF \E k \in 1..Len(items) : items[k].item = id
  THEN CHOOSE k \in 1..Len(items) :
         /\ items[k].item = id
         /\ \A j \in 1..(k - 1) : items[j].item # id
  ELSE 0

\* (cart.items[idx].quantity || 0) + quantity
MergeQtyOverwrite(old, q) == q
MergeQty(old, q) == (IF old = NaN THEN 0 ELSE old) + q

RECURSIVE MergeFrom(_, _, _)
\* The merge loop of POST /.
MergeFrom(items, normalized, i) ==
  IF i > Len(normalized) THEN items
  ELSE LET n == normalized[i]
           idx == FindIndex(items, n.item)
       IN MergeFrom(IF idx > 0
                    THEN [items EXCEPT ![idx].quantity = MergeQty(@, n.quantity)]
                    ELSE Append(items, n),
                    normalized, i + 1)

\* The Cart schema stores quantity as a Number: a NaN fails the cast and
\* save() rejects with a ValidationError.
SchemaAccepts(items) == \A k \in 1..Len(items) : items[k].quantity # NaN

\* cart.items.filter((it) => String(it.item) !== String(itemId))
RECURSIVE FilterOut(_, _)
FilterOut(items, id) ==
  IF items = <<>> THEN <<>>
  ELSE IF Head(items).item = id THEN FilterOut(Tail(items), id)
  ELSE <<Head(items)>> \o FilterOut(Tail(items), id)

RECURSIVE CoerceFrom(_, _, _)
\* coerceCartItems(rawItems): the first entry without an id, or whose id is
\* no ObjectId, throws.
CoerceFrom(rawItems, i, acc) ==
  IF i > Len(rawItems)
  THEN [ok |-> TRUE, status |-> 0, err |-> "", id |-> "", items |-> acc]
  ELSE LET it == rawItems[i]
           idStr == IF TruthyId(it.item) THEN it.item
                    ELSE IF TruthyId(it.itemId) THEN it.itemId
                    ELSE it._id
       IN IF ~TruthyId(idStr)
          THEN [ok |-> FALSE, status |-> 400, err |-> "MissingItemId", id |-> "",
                items |-> <<>>]
          ELSE IF ~IsValidObjectId(ToStr(idStr))
          THEN [ok |-> FALSE, status |-> 400, err |-> "InvalidItemId",
                id |-> ToStr(idStr), items |-> <<>>]
          ELSE CoerceFrom(rawItems, i + 1,
                          Append(acc, Line(ToStr(idStr), QtyOrOne(it.quantity))))

CoerceCartItems(rawItems) == CoerceFrom(rawItems, 1, <<>>)

\* The user's cart after save(): a new document, or the found one updated.
Saved(u, items) ==
  IF FindCart(u) = 0
  THEN Append(carts, [user |-> u, items |-> items])
  ELSE [carts EXCEPT ![FindCart(u)].items = items]

\* The model follows line quantities up to MaxQty.
WithinBounds(items) == \A k \in 1..Len(items) : items[k].quantity <= MaxQty

\* ---- what a request body asks for, read off the body itself
BodyEntries(b) ==
  IF b.null THEN <<>>
  ELSE IF b.hasItems THEN b.items
  ELSE IF b.top = EmptyEntry THEN <<>> ELSE <<b.top>>

\* The id an entry designates: the id field it carries, a nested object
\* standing for its own _id.
IntendedId(e) ==
  LET v == IF e.itemId # AbsentId THEN e.itemId
           ELSE IF e.item # AbsentId THEN e.item ELSE e._id
  IN v.id

\* Some entry lacks an id, has an ill-formed one, or names no sweet.
HasBadEntry(b) ==
  \E k \in 1..Len(BodyEntries(b)) : IntendedId(BodyEntries(b)[k]) \notin Catalog

\* Some entry lacks an id or has an ill-formed one.
HasBadId(b) ==
  \E k \in 1..Len(BodyEntries(b)) : IntendedId(BodyEntries(b)[k]) \notin ValidIds

\* Every entry names its sweet by a scalar id and some entry's quantity is
\* absent, zero, negative or not a number.
AsksFloor(b) ==
  /\ BodyEntries(b) # <<>>
  /\ \A k \in 1..Len(BodyEntries(b)) :
       LET e == BodyEntries(b)[k]
       IN IntendedId(e) \in Catalog /\ e.item.k # "obj"
  /\ \E k \in 1..Len(BodyEntries(b)) :
       LET q == BodyEntries(b)[k].quantity
       IN q.k # "num" \/ q.n < 1

\* What the body asks for, as the last request records it.
Asked(b, hasBad) == [NoLast EXCEPT !.bad = hasBad, !.floor = AsksFloor(b)]

\* The response: its status and the id its message names; err is the message.
Answer(rec, op, u, status, err, id) ==
  [rec EXCEPT !.op = op, !.user = u, !.status = status, !.id = id]

\* The body { itemId: x, quantity: 2 }.
PayloadX2(x) == TopBody([EmptyEntry EXCEPT !.itemId = StrId(x), !.quantity = NumQ(2)])

\* The bodies the cart requests carry.
CartEntries ==
  {[EmptyEntry EXCEPT !.itemId = StrId("A"), !.quantity = q] :
      q \in {NumQ(-1), NumQ(2), StrQ}}
  \cup {[EmptyEntry EXCEPT !.item = StrId("B")],
        [EmptyEntry EXCEPT !.itemId = StrId("C")],
        [EmptyEntry EXCEPT !.itemId = StrId("zz")],
        [EmptyEntry EXCEPT !.item = ObjId("A"), !.quantity = NumQ(2)],
        EmptyEntry}

CartBodies ==
  {NullBody} \cup {TopBody(e) : e \in CartEntries}
             \cup {ItemsBody(es) : es \in SeqsUpTo(CartEntries, MaxBatch)}

\* A POST / or PUT / request, as far as the handler depends on its body: the
\* part of the handler that reads nothing but the body and the catalog (which
\* no cart route changes), normalizePayload and the validation loop, is
\* applied here. Bodies the handler cannot tell apart make one request.
ParsedItems(b) ==
  [empty |-> Len(NormalizePayload(b)) = 0,
   v |-> Validate(NormalizePayload(b)),
   asked |-> Asked(b, HasBadEntry(b)),
   x2 |-> IF \E x \in Catalog : b = PayloadX2(x)
          THEN CHOOSE x \in Catalog : b = PayloadX2(x) ELSE ""]

\* A POST /sync request likewise: coerceCartItems(req.body.items || []).
ParsedSync(b) ==
  [c |-> IF b.null
         THEN [ok |-> FALSE, status |-> 400, err |-> "TypeError", id |-> "",
               items |-> <<>>]
         ELSE CoerceCartItems(IF b.hasItems THEN b.items ELSE <<>>),
   asked |-> Asked(b, HasBadId(b))]

ItemsRequests == {ParsedItems(b) : b \in CartBodies}

SyncRequests == {ParsedSync(b) : b \in CartBodies}

\* Whether the user's cart has a line for x.
HasLine(u, x) ==
  FindCart(u) # 0 /\ FindIndex(carts[FindCart(u)].items, x) # 0

\* The last requests, as far as they repeat the payload { itemId: x,
\* quantity: 2 } on a cart that began without x.
Repeats(op, u, x) ==
  IF x = "" THEN NoTwice
  ELSE IF twice = [phase |-> op \o "1", user |-> u, x |-> x]
  THEN [phase |-> op \o "2", user |-> u, x |-> x]
  ELSE IF ~HasLine(u, x)
  THEN [phase |-> op \o "1", user |-> u, x |-> x]
  ELSE NoTwice

\* The :itemId of DELETE /:itemId.
RemoveIds == {"A", "B", "C", "zz"}

InitCart ==
  /\ ConnIdle /\ ApiIdle /\ LedgerIdle /\ NormIdle /\ RaceIdle /\ BackoffIdle /\ CatIdle /\ HealthIdle
  /\ carts = <<>>
  /\ last = NoLast
  /\ twice = NoTwice

\* POST /api/cart
AddItems(u, rq) ==
  LET idx == FindCart(u)
      merged == IF idx = 0 THEN rq.v.normalized
                ELSE MergeFrom(carts[idx].items, rq.v.normalized, 1)
  IN /\ IF ~GateOpen
        THEN /\ last' = Answer(rq.asked, "add", u, 503, "ServiceUnavailable", "")
             /\ carts' = carts
        ELSE IF rq.empty
        THEN /\ last' = Answer(rq.asked, "add", u, 400, "NoItems", "")
             /\ carts' = carts
        ELSE IF ~rq.v.ok
        THEN /\ last' = Answer(rq.asked, "add", u, rq.v.status, rq.v.err, rq.v.id)
             /\ carts' = carts
        ELSE IF ~SchemaAccepts(merged)
        THEN /\ last' = Answer(rq.asked, "add", u, 400, "ValidationError", "")
             /\ carts' = carts
        ELSE /\ WithinBounds(merged)
             /\ last' = Answer(rq.asked, "add", u, IF idx = 0 THEN 201 ELSE 200, "", "")
             /\ carts' = Saved(u, merged)
     /\ twice' = Repeats("add", u, rq.x2)
     /\ UNCHANGED <<connVars, apiVars, ledgerVars, normVars, raceVars, backoffVars, catVars, healthVars>>

\* PUT /api/cart
ReplaceItems(u, rq) ==
  /\ IF ~GateOpen
     THEN /\ last' = Answer(rq.asked, "replace", u, 503, "ServiceUnavailable", "")
          /\ carts' = carts
     ELSE IF ~rq.v.ok
     THEN /\ last' = Answer(rq.asked, "replace", u, rq.v.status, rq.v.err, rq.v.id)
          /\ carts' = carts
     ELSE IF ~SchemaAccepts(rq.v.normalized)
     THEN /\ last' = Answer(rq.asked, "replace", u, 500, "FailedToReplace", "")
          /\ carts' = carts
     ELSE /\ last' = Answer(rq.asked, "replace", u, 200, "", "")
          /\ carts' = Saved(u, rq.v.normalized)
  /\ twice' = Repeats("rep", u, rq.x2)
  /\ UNCHANGED <<connVars, apiVars, ledgerVars, normVars, raceVars, backoffVars, catVars, healthVars>>

\* DELETE /api/cart/:itemId
RemoveItem(u, itemId) ==
  LET idx == FindCart(u)
  IN /\ IF ~GateOpen
        THEN /\ last' = Answer(NoLast, "remove", u, 503, "ServiceUnavailable", "")
             /\ carts' = carts
        ELSE IF ~IsValidObjectId(itemId)
        THEN /\ last' = Answer(NoLast, "remove", u, 400, "InvalidItemId", itemId)
             /\ carts' = carts
        ELSE IF idx = 0
        THEN /\ last' = Answer(NoLast, "remove", u, 404, "CartNotFound", itemId)
             /\ carts' = carts
        ELSE /\ last' = Answer(NoLast, "remove", u, 200, "", itemId)
             /\ carts' = Saved(u, FilterOut(carts[idx].items, itemId))
     /\ twice' = NoTwice
     /\ UNCHANGED <<connVars, apiVars, ledgerVars, normVars, raceVars, backoffVars, catVars, healthVars>>

\* POST /api/cart/sync
SyncItems(u, rq) ==
  /\ IF ~GateOpen
     THEN /\ last' = Answer(rq.asked, "sync", u, 503, "ServiceUnavailable", "")
          /\ carts' = carts
     ELSE IF ~rq.c.ok
     THEN /\ last' = Answer(rq.asked, "sync", u, rq.c.status, rq.c.err, rq.c.id)
          /\ carts' = carts
     ELSE IF ~SchemaAccepts(rq.c.items)
     THEN /\ last' = Answer(rq.asked, "sync", u, 400, "ValidationError", "")
          /\ carts' = carts
     ELSE /\ last' = Answer(rq.asked, "sync", u, 200, "", "")
          /\ carts' = Saved(u, rq.c.items)
  /\ twice' = NoTwice
  /\ UNCHANGED <<connVars, apiVars, ledgerVars, normVars, raceVars, backoffVars, catVars, healthVars>>

NextCart ==
  \/ \E u \in Users, rq \in ItemsRequests : AddItems(u, rq)
  \/ \E u \in Users, rq \in ItemsRequests : ReplaceItems(u, rq)
  \/ \E u \in Users, itemId \in RemoveIds : RemoveItem(u, itemId)
  \/ \E u \in Users, rq \in SyncRequests : SyncItems(u, rq)

SpecCart == InitCart /\ [][NextCart]_vars

\* ===================================================== SpecCartRace
\* The cart routes await by await: Cart.findOne and save() are two storage
\* operations, and the requests in flight interleave between them.
RaceUsers == {"u1", "u2"}

RaceBodies ==
  {ItemsBody(<<[EmptyEntry EXCEPT !.itemId = StrId("A"), !.quantity = NumQ(2)]>>),
   ItemsBody(<<[EmptyEntry EXCEPT !.item = StrId("B")]>>)}

RaceOps == {"add", "replace", "sync"}

\* The Cart collection admits one document per user: an insert for a user
\* who has a cart is rejected (duplicate key).
OwnerUniqueUnenforced(u) == TRUE
OwnerUnique(u) == \A k \in 1..Len(carts) : carts[k].user # u

\* The status of a request whose save() rejected: the catch of each route.
SaveFailedStatus(op) == IF op = "sync" THEN 400 ELSE 500

\* The carts stored when the racing requests arrive: none, or the cart an
\* earlier request of u2 has left.
RaceStartCarts ==
  {<<>>, <<[user |-> "u2", items |-> <<Line("B", 1)>>]>>}

InitCartRace ==
  /\ ConnIdle /\ ApiIdle /\ LedgerIdle /\ NormIdle /\ RaceIdle /\ BackoffIdle /\ CatIdle /\ HealthIdle
  /\ carts \in RaceStartCarts
  /\ last = NoLast
  /\ twice = NoTwice

\* A cart request from its arrival up to its call of save(): the gate, the
\* validation of the body, Cart.findOne({ user }) and the items to store.
CartFind(p, u, op, b) ==
  /\ cartReqs[p].pc = "idle"
  /\ LET r == [IdleCartReq EXCEPT !.op = op, !.user = u]
         v == Validate(NormalizePayload(b))
         c == CoerceCartItems(IF b.hasItems THEN b.items ELSE <<>>)
         idx == FindCart(u)
         items == IF op = "sync" THEN c.items
                  ELSE IF op = "replace" \/ idx = 0 THEN v.normalized
                  ELSE MergeFrom(carts[idx].items, v.normalized, 1)
     IN IF ~GateOpen
        THEN cartReqs' = [cartReqs EXCEPT ![p] = [r EXCEPT !.pc = "done", !.status = 503]]
        ELSE IF op = "add" /\ Len(NormalizePayload(b)) = 0
        THEN cartReqs' = [cartReqs EXCEPT ![p] = [r EXCEPT !.pc = "done", !.status = 400]]
        ELSE IF op # "sync" /\ ~v.ok
        THEN cartReqs' = [cartReqs EXCEPT ![p] =
                            [r EXCEPT !.pc = "done", !.status = v.status]]
        ELSE IF op = "sync" /\ ~c.ok
        THEN cartReqs' = [cartReqs EXCEPT ![p] =
                            [r EXCEPT !.pc = "done", !.status = c.status]]
        ELSE /\ WithinBounds(items)
             /\ cartReqs' = [cartReqs EXCEPT ![p] =
                   [r EXCEPT !.pc = "save", !.found = idx, !.items = items,
                             !.read = IF idx = 0 THEN <<>> ELSE carts[idx].items]]
  /\ UNCHANGED <<carts, last, twice, connVars, apiVars, ledgerVars, normVars, backoffVars, catVars, healthVars>>

\* save(): the insert of a new document, or the update of the one found.
\* The update of a document that was written since it was read resolves or
\* rejects (VersionError); the request then ends in its catch.
CartSave(p) ==
  /\ cartReqs[p].pc = "save"
  /\ LET r == cartReqs[p]
     IN IF r.found = 0
        THEN IF OwnerUnique(r.user)
             THEN /\ carts' = Append(carts, [user |-> r.user, items |-> r.items])
                  /\ cartReqs' = [cartReqs EXCEPT ![p].pc = "done",
                         ![p].status = IF r.op = "add" THEN 201 ELSE 200]
             ELSE /\ carts' = carts
                  /\ cartReqs' = [cartReqs EXCEPT ![p].pc = "done",
                         ![p].status = SaveFailedStatus(r.op)]
        ELSE \/ /\ carts' = [carts EXCEPT ![r.found].items = r.items]
                /\ cartReqs' = [cartReqs EXCEPT ![p].pc = "done", ![p].status = 200]
             \/ /\ carts[r.found].items # r.read
                /\ carts' = carts
                /\ cartReqs' = [cartReqs EXCEPT ![p].pc = "done",
                       ![p].status = SaveFailedStatus(r.op)]
  /\ UNCHANGED <<last, twice, connVars, apiVars, ledgerVars, normVars, backoffVars, catVars, healthVars>>

\* The ids a racing DELETE /:itemId names.
RaceRemoveIds == {"A", "zz"}

\* DELETE /:itemId from its arrival up to its call of save(): the gate, the
\* check of the id, Cart.findOne({ user }) and the filter of the lines.
CartRemoveFind(p, u, itemId) ==
  /\ cartReqs[p].pc = "idle"
  /\ LET r == [IdleCartReq EXCEPT !.op = "remove", !.user = u]
         idx == FindCart(u)
     IN cartReqs' = [cartReqs EXCEPT ![p] =
          IF ~GateOpen THEN [r EXCEPT !.pc = "done", !.status = 503]
          ELSE IF ~IsValidObjectId(itemId) THEN [r EXCEPT !.pc = "done", !.status = 400]
          ELSE IF idx = 0 THEN [r EXCEPT !.pc = "done", !.status = 404]
          ELSE [r EXCEPT !.pc = "save", !.found = idx,
                         !.items = FilterOut(carts[idx].items, itemId),
                         !.read = carts[idx].items]]
  /\ UNCHANGED <<carts, last, twice, connVars, apiVars, ledgerVars, normVars, backoffVars, catVars, healthVars>>

NextCartRace ==
  \/ \E p \in Procs, u \in RaceUsers, op \in RaceOps, b \in RaceBodies :
       CartFind(p, u, op, b)
  \/ \E p \in Procs, u \in RaceUsers, itemId \in RaceRemoveIds :
       CartRemoveFind(p, u, itemId)
  \/ \E p \in Procs : CartSave(p)

SpecCartRace == InitCartRace /\ [][NextCartRace]_vars

\* ===================================================== SpecCatalog
\* The sweets router, one whole handler after the other.

\* req.user as protect leaves it: the authenticated caller.
Callers == {[id |-> "u1", role |-> "user"], [id |-> "u2", role |-> "user"],
            [id |-> "adm", role |-> "admin"]}

\* The Authorization header: absent, or a scheme and a token. A token is
\* empty, malformed, wrongly signed, expired or valid, and claims a role.
NoHeader == [present |-> FALSE, scheme |-> "", kind |-> "", role |-> ""]
Header(scheme, kind, role) ==
  [present |-> TRUE, scheme |-> scheme, kind |-> kind, role |-> role]

Headers ==
  <<NoHeader,
    Header("Basic", "valid", "admin"),
    Header("Bearer", "empty", ""),
    Header("Bearer", "malformed", ""),
    Header("Bearer", "badsig", "admin"),
    Header("Bearer", "expired", "admin"),
    Header("Bearer", "valid", "user"),
    Header("Bearer", "valid", ""),
    Header("Bearer", "valid", "admin")>>

\* payload && payload.role === "admin"
IsAnyRole(role) == role # ""
IsAdminRole(role) == role = "admin"

\* requestIsAdmin(req): jwt.verify throws on a token that is not valid, and
\* the catch returns false.
RequestIsAdmin(h) ==
  LET auth == IF h.present THEN h ELSE NoHeader
      token == IF auth.scheme = "Bearer" THEN auth.kind ELSE ""
  IN IF token \in {"", "empty"} THEN FALSE
     ELSE IF token # "valid" THEN FALSE
     ELSE IsAdminRole(auth.role)

\* A sweet as a response shows it: stock is a number, or undefined (absent
\* from the JSON).
View(i, hidden) ==
  [id |-> i, name |-> catalog[i].name,
   stock |-> IF hidden THEN AbsentQ ELSE NumQ(catalog[i].stock)]

\* hideStockForNonAdmin(sweets, isAdmin)
ShowStockToAll(found, isAdmin) == {View(i, FALSE) : i \in found}
HideStockForNonAdmin(found, isAdmin) == {View(i, ~isAdmin) : i \in found}

\* { name: { $regex: q } }, names being atoms; no q, no filter.
Matches(name, q) == q = "" \/ name = q

Names == {"n1", "n2"}

\* The stock a body may carry on create and update.
CatRawStocks == {AbsentQ, StrQ, NumQ(-1), NumQ(0), NumQ(MaxStock)}

\* The Sweet schema on create: stock is a Number, 0 when absent, never
\* negative.
SweetSchemaAccepts(raw) == raw.k = "absent" \/ (raw.k = "num" /\ raw.n >= 0)

\* The model follows stocks up to this value.
CatStockCap == MaxStock + MaxReqQty

CatAnswer(op, id, status) ==
  [NoCatLast EXCEPT !.op = op, !.id = id, !.status = status]

InitCatalog ==
  /\ ConnIdle /\ ApiIdle /\ LedgerIdle /\ CartIdle /\ NormIdle /\ RaceIdle /\ BackoffIdle /\ HealthIdle
  /\ \E s \in 0..MaxStock :
       catalog = [i \in ItemIds |->
                   IF i = "A"
                   THEN [present |-> TRUE, name |-> "n1", stock |-> s, createdBy |-> "u1"]
                   ELSE NoSweet]
  /\ catLast = NoCatLast

\* POST /api/sweets: the new document takes an id no sweet has.
CreateSweet(c, name, raw) ==
  /\ \E i \in ItemIds : ~catalog[i].present
  /\ LET i == CHOOSE j \in ItemIds : ~catalog[j].present
     IN IF ~GateOpen
        THEN catalog' = catalog /\ catLast' = CatAnswer("create", "", 503)
        ELSE IF ~SweetSchemaAccepts(raw)
        THEN catalog' = catalog /\ catLast' = CatAnswer("create", "", 500)
        ELSE /\ catalog' = [catalog EXCEPT ![i] =
                  [present |-> TRUE, name |-> name,
                   stock |-> IF raw.k = "num" THEN raw.n ELSE 0,
                   createdBy |-> c.id]]
             /\ catLast' = CatAnswer("create", i, 201)
  /\ UNCHANGED <<connVars, apiVars, ledgerVars, cartVars, normVars, raceVars,
                 backoffVars, healthVars>>

\* PUT /api/sweets/:id: findByIdAndUpdate(id, req.body) sets every field the
\* body carries; a stock that is no number fails the cast.
UpdateSweet(c, id, name, raw) ==
  /\ IF ~GateOpen
     THEN catalog' = catalog /\ catLast' = CatAnswer("update", id, 503)
     ELSE IF ~catalog[id].present
     THEN catalog' = catalog /\ catLast' = CatAnswer("update", id, 404)
     ELSE IF catalog[id].createdBy # c.id /\ c.role # "admin"
     THEN catalog' = catalog /\ catLast' = CatAnswer("update", id, 403)
     ELSE IF raw.k = "str"
     THEN catalog' = catalog /\ catLast' = CatAnswer("update", id, 500)
     ELSE /\ catalog' = [catalog EXCEPT
                 ![id].name = IF name = "" THEN @ ELSE name,
                 ![id].stock = IF raw.k = "num" THEN raw.n ELSE @]
          /\ catLast' = CatAnswer("update", id, 200)
  /\ UNCHANGED <<connVars, apiVars, ledgerVars, cartVars, normVars, raceVars,
                 backoffVars, healthVars>>

\* POST /api/sweets/:id/purchase, from the quantity to the response.
PurchaseSweet(id, raw) ==
  /\ LET qty == PurchaseQty(raw)
     IN IF ~GateOpen
        THEN catalog' = catalog /\ catLast' = CatAnswer("purchase", id, 503)
        ELSE IF qty <= 0
        THEN catalog' = catalog /\ catLast' = CatAnswer("purchase", id, 400)
        ELSE IF catalog[id].present /\ CondMatch(catalog[id].stock, qty)
        THEN /\ catalog' = [catalog EXCEPT ![id].stock = DecStock(@, qty)]
             /\ catLast' = CatAnswer("purchase", id, 200)
        ELSE /\ catalog' = catalog
             /\ catLast' = CatAnswer("purchase", id,
                                      IF catalog[id].present THEN 400 ELSE 404)
  /\ UNCHANGED <<connVars, apiVars, ledgerVars, cartVars, normVars, raceVars,
                 backoffVars, healthVars>>

\* POST /api/sweets/:id/restock, behind isAdmin.
RestockSweet(c, id, raw) ==
  /\ LET qty == ToNumber(raw)
     IN IF ~GateOpen
        THEN catalog' = catalog /\ catLast' = CatAnswer("restock", id, 503)
        ELSE IF c.role # "admin"
        THEN catalog' = catalog /\ catLast' = CatAnswer("restock", id, 403)
        ELSE IF RestockInvalid(raw, qty)
        THEN catalog' = catalog /\ catLast' = CatAnswer("restock", id, 400)
        ELSE IF catalog[id].present
        THEN /\ IncStock(catalog[id].stock, qty) <= CatStockCap
             /\ catalog' = [catalog EXCEPT ![id].stock = IncStock(@, qty)]
             /\ catLast' = CatAnswer("restock", id, 200)
        ELSE catalog' = catalog /\ catLast' = CatAnswer("restock", id, 404)
  /\ UNCHANGED <<connVars, apiVars, ledgerVars, cartVars, normVars, raceVars,
                 backoffVars, healthVars>>

\* GET /api/sweets/search (q "": no filter) and GET /api/sweets.
FindSweets(op, h, q) ==
  /\ LET found == {i \in ItemIds : catalog[i].present /\ Matches(catalog[i].name, q)}
         isAdmin == RequestIsAdmin(Headers[h])
     IN catLast' =
          IF ~GateOpen THEN CatAnswer(op, "", 503)
          ELSE [CatAnswer(op, "", 200) EXCEPT
                  !.header = h, !.admin = isAdmin,
                  !.shown = HideStockForNonAdmin(found, isAdmin)]
  /\ catalog' = catalog
  /\ UNCHANGED <<connVars, apiVars, ledgerVars, cartVars, normVars, raceVars,
                 backoffVars, healthVars>>

SearchSweets(h, q) == FindSweets("search", h, q)

ListSweets(h) == FindSweets("list", h, "")

NextCatalog ==
  \/ \E c \in Callers, name \in Names, raw \in CatRawStocks : CreateSweet(c, name, raw)
  \/ \E c \in Callers, id \in ItemIds, name \in {"", "n2"}, raw \in CatRawStocks :
       UpdateSweet(c, id, name, raw)
  \/ \E id \in ItemIds, raw \in LedgerRawQtys : PurchaseSweet(id, raw)
  \/ \E c \in Callers, id \in ItemIds, raw \in LedgerRawQtys : RestockSweet(c, id, raw)
  \/ \E h \in 1..Len(Headers), q \in {"", "n2"} : SearchSweets(h, q)
  \/ \E h \in 1..Len(Headers) : ListSweets(h)

SpecCatalog == InitCatalog /\ [][NextCatalog]_vars

\* ----------------------------------------------------- claims, SpecConn
\* C3: a request that arrives while the connection state is not Connected is
\* answered 503 at the gate, never enters a handler and performs no storage
\* operation; one that arrives in Connected enters its handler.
C3_GateFollowsConnectionState ==
  \A p \in ApiProcs :
    apiReqs[p].pc # "idle" =>
      IF apiReqs[p].gateConn # "Connected"
      THEN apiReqs[p].status = 503 /\ ~apiReqs[p].handler /\ ~apiReqs[p].touched
      ELSE apiReqs[p].handler

\* C13: the retry loop has no ceiling: after n failed attempts the (n+1)-th
\* is made (for every n the model follows, unless the process has exited);
\* an attempt that succeeds makes the state Connected with the flag set, and
\* from then on the loop has ended and makes no further attempt.
C13_RetriesUntilConnected ==
  /\ \A n \in 1..(MaxAttempt - 1) :
       (loopPc = "sleep" /\ attempt = n)
         ~> ((loopPc = "attempt" /\ attempt = n + 1) \/ exited)
  /\ (loopPc = "attempt") ~> (loopPc \in {"sleep", "done"} \/ exited)
  /\ [][(loopPc = "attempt" /\ mongoState' = "connected") =>
          (dbConnected' /\ loopPc' = "done" /\ ConnectionState' # "Connecting")]_vars
  /\ [][loopPc = "done" => (loopPc' = "done" /\ attempt' = attempt)]_vars

\* The loop has connected at its last attempt, after the failures before it.
C13_Witness ==
  loopPc = "done" /\ attempt = MaxAttempt /\ dbConnected /\ mongoState = "connected"

\* C14: once shutdown has begun no new connection attempt starts and the
\* flag is not set to true again, and shutdown runs once: a second signal
\* starts no second disconnect and no second server close.
C14_ShutdownStopsLoopAndRunsOnce ==
  [][/\ Len(shut') <= 1
     /\ shut # <<>> => (attempt' = attempt /\ (dbConnected' => dbConnected))]_vars

\* C19: without a connection string no connection attempt ever starts: the
\* flag stays false and the health route reports it so, the state is never
\* Connected, and every request under /api is answered 503 at the gate.
C19_NoUriNeverConnects ==
  loopPc = "off" =>
    /\ attempt = 0 /\ ~dbConnected /\ mongoState # "connected"
    /\ ConnectionState # "Connected"
    /\ healthResp.status # 0 => (healthResp.status = 200 /\ ~healthResp.dbConnected)
    /\ \A p \in ApiProcs :
         apiReqs[p].pc # "idle" =>
           (apiReqs[p].pc = "done" /\ apiReqs[p].status = 503 /\ ~apiReqs[p].handler)

\* Without a connection string, the health route has answered and every
\* request under /api has been refused.
C19_Witness ==
  /\ loopPc = "off" /\ ~exited
  /\ healthResp.status = 200
  /\ \A p \in ApiProcs : apiReqs[p].status = 503

\* C21: the readiness flag is false until a connection attempt of the retry
\* loop succeeds, only that success sets it, no request (under /api or to
\* the health route) writes it, and once true it stays true through every
\* later event, the disconnect of a shutdown included.
C21_ReadinessFlagMonotone ==
  /\ ~dbConnected
  /\ [][/\ dbConnected => dbConnected'
        /\ dbConnected' # dbConnected
             => (loopPc = "attempt" /\ mongoState = "connecting"
                 /\ mongoState' = "connected")
        /\ (apiReqs' # apiReqs \/ healthResp' # healthResp)
             => dbConnected' = dbConnected
       ]_vars

\* The flag is true after a shutdown has disconnected the store and a
\* request under /api has been handled since.
C21_Witness ==
  /\ dbConnected
  /\ mongoState = "disconnected"
  /\ \E i \in 1..Len(shut) : shut[i] \in {"closing", "closed"}
  /\ \E p \in ApiProcs : apiReqs[p].status = 500

\* ----------------------------------------------------- claims, SpecLedger
RECURSIVE PurchasedSum(_, _)
\* The quantities of the purchases of item id among the requests S that
\* answered success.
PurchasedSum(S, id) ==
  IF S = {} THEN 0
  ELSE LET p == CHOOSE x \in S : TRUE
       IN (IF reqs[p].kind = "purchase" /\ reqs[p].id = id /\ reqs[p].status = 200
           THEN reqs[p].qty ELSE 0) + PurchasedSum(S \ {p}, id)

\* C1: the stock of a stored item is never negative, and no purchase reports a
\* negative available count, whatever the interleaving of purchases and
\* restocks.
C1_StockNeverNegative ==
  /\ \A i \in ItemIds : sweets[i].present => sweets[i].stock >= 0
  /\ \A p \in Procs : reqs[p].err = "InsufficientStock" => reqs[p].avail >= 0

\* Two purchases of the same item have raced for the last units: one took
\* them, the other was refused.
C1_Witness ==
  \E p, q \in Procs :
    /\ reqs[p].kind = "purchase" /\ reqs[p].id = "A" /\ reqs[p].status = 200
    /\ reqs[q].kind = "purchase" /\ reqs[q].id = "A"
    /\ reqs[q].err = "InsufficientStock"
    /\ sweets["A"].stock = 0

\* C2: once a set of purchase requests on one item has completed, its stock
\* is the initial stock minus the quantities of the purchases that succeeded.
C2_FinalStockIsInitialMinusSold ==
  (\A p \in Procs : reqs[p].kind = "purchase" /\ reqs[p].pc = "done")
    => sweets["A"].stock = initStock - PurchasedSum(Procs, "A")

\* All purchases are done; one sold something and one was refused.
C2_Witness ==
  /\ \A p \in Procs : reqs[p].kind = "purchase" /\ reqs[p].pc = "done"
  /\ \E p \in Procs : reqs[p].status = 200 /\ reqs[p].id = "A" /\ reqs[p].qty = 2
  /\ \E p \in Procs : reqs[p].err = "InsufficientStock"

\* C4 as claimed: a purchase refused for insufficient stock reports an
\* available count below the quantity it asked for.
C4_ReportedBelowRequested ==
  \A p \in Procs :
    reqs[p].err = "InsufficientStock" => reqs[p].avail < reqs[p].qty

\* C4 as amended: a purchase whose conditional write meets a stock below its
\* quantity changes nothing and goes on to the diagnostic read (a write that
\* meets enough stock succeeds); the read of a stored item answers
\* InsufficientStock with the stock as it is at that read, and changes nothing.
C4_RefusalReportsStockAtRead ==
  [][\A p \in Procs :
       /\ (reqs[p].kind = "purchase" /\ reqs[p].pc = "write" /\ reqs'[p].pc # "write"
           /\ sweets[reqs[p].id].present)
            => IF sweets[reqs[p].id].stock < reqs[p].qty
               THEN reqs'[p].pc = "diag" /\ sweets' = sweets
               ELSE reqs'[p].status = 200
       /\ (reqs[p].kind = "purchase" /\ reqs[p].pc = "diag" /\ reqs'[p].pc = "done"
           /\ sweets[reqs[p].id].present)
            => /\ reqs'[p].status = 400
               /\ reqs'[p].err = "InsufficientStock"
               /\ reqs'[p].avail = sweets[reqs[p].id].stock
               /\ sweets' = sweets]_vars

\* A purchase was refused and the count it reports is the stock.
C4_Witness ==
  \E p \in Procs :
    /\ reqs[p].err = "InsufficientStock"
    /\ reqs[p].avail < reqs[p].qty
    /\ reqs[p].avail = sweets["A"].stock

\* C5: a restock whose quantity is not a number above 0 is refused with
\* InvalidQuantity before any storage operation; with a quantity q > 0 its
\* write adds exactly q to the stock of a stored item, and for an id that is
\* not stored it answers NotFound and leaves the store as it is.
C5_RestockAddsExactly ==
  [][\A p \in Procs :
       /\ (reqs[p].pc = "idle" /\ reqs'[p].kind = "restock")
            => /\ sweets' = sweets
               /\ IF reqs'[p].raw.k = "num" /\ reqs'[p].raw.n > 0
                  THEN reqs'[p].pc = "write" /\ reqs'[p].qty = reqs'[p].raw.n
                  ELSE /\ reqs'[p].pc = "done"
                       /\ reqs'[p].status = 400
                       /\ reqs'[p].err = "InvalidQuantity"
       /\ (reqs[p].kind = "restock" /\ reqs[p].pc = "write" /\ reqs'[p].pc = "done")
            => IF sweets[reqs[p].id].present
               THEN /\ sweets' = [sweets EXCEPT ![reqs[p].id].stock = @ + reqs[p].raw.n]
                    /\ reqs'[p].status = 200
               ELSE /\ sweets' = sweets
                    /\ reqs'[p].status = 404
                    /\ reqs'[p].err = "NotFound"]_vars

\* A restock went through while a purchase was being served.
C5_Witness ==
  \E p, q \in Procs :
    /\ reqs[p].kind = "restock" /\ reqs[p].status = 200 /\ reqs[p].qty = 2
    /\ reqs[q].kind = "purchase" /\ reqs[q].status = 200
    /\ sweets["A"].stock = initStock + 2 - reqs[q].qty

\* C20: a purchase whose quantity is a number below 1 is answered 400
\* "Quantity must be >= 1" and changes no stock; an accepted purchase takes
\* exactly the quantity its body carries, and exactly 1 when the body has
\* none.
C20_PurchaseQuantityAtLeastOne ==
  [][\A p \in Procs :
       /\ (/\ reqs[p].pc = "idle" /\ reqs'[p].kind = "purchase"
           /\ reqs'[p].status # 503
           /\ reqs'[p].raw.k = "num" /\ reqs'[p].raw.n < 1)
            => /\ reqs'[p].pc = "done" /\ reqs'[p].status = 400
               /\ reqs'[p].err = "QuantityMustBeAtLeast1"
               /\ sweets' = sweets
       /\ (/\ reqs[p].kind = "purchase" /\ reqs[p].pc = "write"
           /\ reqs'[p].status = 200 /\ reqs[p].raw.k # "str")
            => LET id == reqs[p].id
                   asked == IF reqs[p].raw.k = "absent" THEN 1 ELSE reqs[p].raw.n
               IN sweets'[id].stock = sweets[id].stock - asked
    ]_vars

\* ----------------------------------------------------- claims, SpecNorm
\* The only id field an entry carries, when it carries exactly one.
OnlyIdOf(e) ==
  IF e.item = AbsentId /\ e._id = AbsentId THEN e.itemId
  ELSE IF e.itemId = AbsentId /\ e._id = AbsentId THEN e.item
  ELSE AbsentId

\* C7: for an items array of one entry with quantity 3 whose id is given as
\* itemId, as a scalar item, or as a nested item object with its own _id,
\* normalize yields the one pair (that scalar id, 3); for a null or empty
\* body it yields the empty list.
C7_NormalizeYieldsScalarId ==
  normPc = "out" =>
    /\ (body.hasItems /\ Len(body.items) = 1 /\ ~body.null
        /\ OnlyIdOf(body.items[1]) # AbsentId
        /\ body.items[1].quantity = NumQ(3))
         => normOut = <<[itemId |-> StrId(OnlyIdOf(body.items[1]).id), quantity |-> 3]>>
    /\ (body = EmptyBody \/ body = NullBody) => normOut = <<>>


\* ----------------------------------------------------- claims, SpecCart
\* The lines of the user's cart that name x.
LinesFor(u, x) ==
  IF FindCart(u) = 0 THEN {}
  ELSE {k \in 1..Len(carts[FindCart(u)].items) : carts[FindCart(u)].items[k].item = x}

\* C6: add called twice with { itemId: X, quantity: 2 } on a cart that began
\* without X (or on no cart) leaves a single line for X with quantity 4;
\* replace called twice with that payload leaves the cart with the single
\* line X, quantity 2.
C6_AddAdditiveReplaceIdempotent ==
  /\ twice.phase = "add2" =>
       /\ Cardinality(LinesFor(twice.user, twice.x)) = 1
       /\ \A k \in LinesFor(twice.user, twice.x) :
            carts[FindCart(twice.user)].items[k].quantity = 4
  /\ twice.phase = "rep2" =>
       /\ FindCart(twice.user) # 0
       /\ carts[FindCart(twice.user)].items = <<Line(twice.x, 2)>>

\* The second add of the payload has been answered, on a cart that an
\* earlier request had created with another line.
C6_Witness ==
  /\ twice.phase = "add2"
  /\ last.op = "add" /\ last.status = 200
  /\ Len(carts[FindCart(twice.user)].items) > 1

\* C8: an add or replace whose batch has an entry with no id, an ill-formed
\* id or the id of no sweet fails, a 404 naming an id that no sweet has, and
\* leaves every stored cart as it was.
C8_BadEntryFailsWithoutWrite ==
  [][(last'.op \in {"add", "replace"} /\ last'.bad) =>
       /\ last'.status \in {400, 404}
       /\ last'.status = 404 => last'.id \in ValidIds \ Catalog
       /\ carts' = carts]_vars

\* An add naming the id of no sweet has been answered 404 with the user's
\* cart holding lines.
C8_Witness ==
  /\ last.op = "add" /\ last.bad /\ last.status = 404 /\ last.id = "C"
  /\ FindCart(last.user) # 0
  /\ carts[FindCart(last.user)].items # <<>>

\* C9: in every stored cart each item id appears in at most one line.
C9_ItemIdUniqueInCart ==
  \A c \in 1..Len(carts) :
    \A j, k \in 1..Len(carts[c].items) :
      carts[c].items[j].item = carts[c].items[k].item => j = k

\* C10: every line of every stored cart has quantity at least 1, and a
\* request whose entries name sweets and carry an absent, zero, negative or
\* non-numeric quantity is accepted (the quantity being stored as 1).
C10_QuantityAtLeastOne ==
  /\ \A c \in 1..Len(carts) :
       \A k \in 1..Len(carts[c].items) : carts[c].items[k].quantity >= 1
  /\ (last.op \in {"add", "replace", "sync"} /\ last.floor) =>
       last.status \in {200, 201}

\* The lines of items that do not name id, in their order.
LinesNotFor(items, id) ==
  LET Keeps(line) == line.item # id
  IN SelectSeq(items, Keeps)

\* C12: a remove with a well-formed itemId succeeds; it deletes the line for
\* itemId and leaves every other line as it was, and it changes nothing when
\* the user's cart lacks the item or the user has no cart.
C12_RemoveDeletesOnlyItsLine ==
  [][(last'.op = "remove" /\ last'.id \in ValidIds) =>
       /\ last'.status = 200
       /\ carts' = IF FindCart(last'.user) = 0 THEN carts
                   ELSE [carts EXCEPT ![FindCart(last'.user)].items =
                                        LinesNotFor(@, last'.id)]]_vars

\* ----------------------------------------------------- claims, SpecCartRace
\* The stored carts of user u.
CartsOf(u) == {k \in 1..Len(carts) : carts[k].user = u}

\* C11: at most one cart is stored per user in every reachable state, also
\* when two requests of a user without a cart each find none and create one.
C11_OneCartPerUser == \A u \in RaceUsers : Cardinality(CartsOf(u)) <= 1

\* Two requests of one user both found no cart and both have called save():
\* one created the cart, the other was refused.
C11_Witness ==
  \E p, q \in Procs :
    /\ p # q
    /\ cartReqs[p].user = cartReqs[q].user
    /\ cartReqs[p].pc = "done" /\ cartReqs[p].found = 0
    /\ cartReqs[p].status \in {200, 201}
    /\ cartReqs[q].pc = "done" /\ cartReqs[q].found = 0
    /\ cartReqs[q].op \in RaceOps
    /\ cartReqs[q].status \in {400, 500}

\* The cart documents stored for user u.
OwnedBy(u) == {carts[k] : k \in CartsOf(u)}

\* C22: a cart request of user U reads and writes the cart of U only: the
\* carts of a user change only at the save() of one of that user's own
\* requests, the cart a request finds is its own user's, and no cart
\* request changes the stock of a sweet.
C22_CartsIsolatedPerUser ==
  [][/\ \A v \in RaceUsers :
          OwnedBy(v)' # OwnedBy(v)
            => \E p \in Procs : /\ cartReqs[p].pc = "save"
                                /\ cartReqs'[p].pc = "done"
                                /\ cartReqs[p].user = v
     /\ \A p \in Procs :
          (cartReqs[p].pc = "idle" /\ cartReqs'[p].pc = "save"
           /\ cartReqs'[p].found # 0)
            => /\ carts[cartReqs'[p].found].user = cartReqs'[p].user
               /\ cartReqs'[p].read = carts[cartReqs'[p].found].items
     /\ sweets' = sweets /\ catalog' = catalog
    ]_vars

\* Both users own a cart; u1 has created one and emptied it with a remove
\* while the cart of u2 still holds its line.
C22_Witness ==
  /\ \A v \in RaceUsers : Cardinality(CartsOf(v)) = 1
  /\ \E c1 \in OwnedBy("u1"), c2 \in OwnedBy("u2") :
       c1.items = <<>> /\ c2.items = <<Line("B", 1)>>
  /\ \E p, q \in Procs :
       /\ cartReqs[p].op = "remove" /\ cartReqs[p].user = "u1"
       /\ cartReqs[p].status = 200
       /\ cartReqs[q].op = "add" /\ cartReqs[q].user = "u1"
       /\ cartReqs[q].status = 201

\* ----------------------------------------------------- claims, SpecBackoff
\* C15: the jitter-free part of the wait is 2, 4, 8, 16, 32, 60 seconds for
\* attempts 1..6 and 60 seconds from then on, the jitter lies in 0..1000 ms,
\* and the wait, their sum, never exceeds 61000 ms.
C15_BackoffDoublesUpToCap ==
  backoff.pc = "sleep" =>
    /\ backoff.delay = IF backoff.attempt <= 6
                       THEN <<2000, 4000, 8000, 16000, 32000, 60000>>[backoff.attempt]
                       ELSE 60000
    /\ backoff.jitter \in 0..1000
    /\ backoff.wait = backoff.delay + backoff.jitter
    /\ backoff.wait <= 61000

\* The sixth attempt has failed with the largest jitter: the wait is the cap
\* plus 1000 ms.
C15_Witness ==
  backoff.pc = "sleep" /\ backoff.attempt = 6 /\ backoff.wait = 61000

\* ----------------------------------------------------- claims, SpecCatalog
\* C16: an update of a sweet leaves every stock as it was, and the stock of
\* a stored sweet is never negative, whatever the create, update, purchase
\* and restock requests.
C16_UpdateLeavesStock ==
  [][/\ catLast'.op = "update" =>
          \A i \in ItemIds : catalog'[i].stock = catalog[i].stock
     /\ \A i \in ItemIds : catalog'[i].present => catalog'[i].stock >= 0]_vars

\* The caller of the last list or search presented a verified token whose
\* role is admin.
LastCallerIsAdmin ==
  LET h == Headers[catLast.header]
  IN h.present /\ h.scheme = "Bearer" /\ h.kind = "valid" /\ h.role = "admin"

\* C17: the list and search responses to a caller who is no admin carry no
\* stock: each item shown is its id and name alone, so stores that differ in
\* stock only give the same response; an admin is shown each item's stock.
C17_StockShownToAdminOnly ==
  (catLast.op \in {"list", "search"} /\ catLast.status = 200) =>
    \A v \in catLast.shown :
      /\ catalog[v.id].present
      /\ v = [id |-> v.id, name |-> catalog[v.id].name,
              stock |-> IF LastCallerIsAdmin THEN NumQ(catalog[v.id].stock)
                        ELSE AbsentQ]

\* A caller with a verified token of role user has listed the sweets, one
\* of them in stock.
C17_Witness ==
  /\ catLast.op = "list" /\ catLast.status = 200
  /\ Headers[catLast.header] = Header("Bearer", "valid", "user")
  /\ \E v \in catLast.shown : catalog[v.id].stock > 0

\* C18: role resolution never fails the request: with any header the list
\* and search are answered, and the caller counts as admin exactly when the
\* header carries a Bearer token that verifies and whose role is admin.
C18_RoleResolutionIsSoft ==
  catLast.op \in {"list", "search"} =>
    /\ catLast.status = 200
    /\ catLast.admin <=> LastCallerIsAdmin

\* A search with a wrongly signed token that claims the admin role has been
\* answered, its caller no admin.
C18_Witness ==
  /\ catLast.op = "search" /\ catLast.status = 200
  /\ Headers[catLast.header] = Header("Bearer", "badsig", "admin")
  /\ ~catLast.admin

====
